---- MODULE Spec2Model ----
(***************************************************************************)
(* roblox-buffer: the Buffer byte container (src/src/lib.rs) and its       *)
(* serde codec.  Texts are sequences of ASCII codes, byte sequences are    *)
(* sequences of 0..255, a document is a sequence of (key, value) entries.  *)
(***************************************************************************)
EXTENDS Integers, Sequences, FiniteSets, TLC

VARIABLES
    pc,      \* where the caller stands: start, live, consumed, serialized, roundtrip, decoded
    buffer,  \* the bytes of the Buffer the caller holds
    calls,   \* the byte sequences given to new / from_iter and to each extend, in order
    out,     \* the bytes last handed out by into_vec, Vec::from, as_ref or as_mut
    ser,     \* what the last serialize returned
    input,   \* the document last given to deserialize
    de       \* what the last deserialize returned

vars == <<pc, buffer, calls, out, ser, input, de>>

\* ---------------------------------------------------------------- bounds

\* Longest byte sequence given to Buffer::new / from_iter / extend.
MaxLen == 2

\* Largest number of extend calls on one Buffer.
MaxExtends == 2

\* The byte values the inputs are drawn from: both ends of the range and
\* the bytes of "hi".
Bytes == {0, 104, 105, 255}

RECURSIVE SeqsUpTo(_, _)
SeqsUpTo(S, n) ==
    IF n = 0 THEN {<<>>}
    ELSE LET shorter == SeqsUpTo(S, n - 1)
         IN  shorter \cup {Append(s, x) : s \in {t \in shorter : Len(t) = n - 1}, x \in S}

BufSeqs == SeqsUpTo(Bytes, MaxLen)

\* ------------------------------------------------- data_encoding::BASE64

\* The padding character '='.
Pad == 61

\* The symbol of a 6-bit value in the standard alphabet A-Z a-z 0-9 + /.
Sym(v) ==
    IF v < 26 THEN 65 + v
    ELSE IF v < 52 THEN 97 + (v - 26)
    ELSE IF v < 62 THEN 48 + (v - 52)
    ELSE IF v = 62 THEN 43 ELSE 47

\* The 6-bit value of a character, -1 when it is no symbol of the alphabet.
Val(c) ==
    IF c >= 65 /\ c <= 90 THEN c - 65
    ELSE IF c >= 97 /\ c <= 122 THEN c - 97 + 26
    ELSE IF c >= 48 /\ c <= 57 THEN c - 48 + 52
    ELSE IF c = 43 THEN 62
    ELSE IF c = 47 THEN 63 ELSE -1

\* BASE64.encode: three bytes to four symbols, the last block padded.
RECURSIVE Base64Encode(_)
Base64Encode(b) ==
    IF Len(b) = 0 THEN <<>>
    ELSE IF Len(b) = 1 THEN
        <<Sym(b[1] \div 4), Sym((b[1] % 4) * 16), Pad, Pad>>
    ELSE IF Len(b) = 2 THEN
        <<Sym(b[1] \div 4), Sym((b[1] % 4) * 16 + b[2] \div 16), Sym((b[2] % 16) * 4), Pad>>
    ELSE
        <<Sym(b[1] \div 4), Sym((b[1] % 4) * 16 + b[2] \div 16),
          Sym((b[2] % 16) * 4 + b[3] \div 64), Sym(b[3] % 64)>>
        \o Base64Encode(SubSeq(b, 4, Len(b)))

Ok(v) == [ok |-> TRUE, val |-> v, err |-> "none"]
Err(e) == [ok |-> FALSE, val |-> <<>>, err |-> e]

\* One four-character block: four symbols, or two or three symbols with
\* zero trailing bits followed by padding.
DecodeBlock(c) ==
    LET n == IF c[4] # Pad THEN 4
             ELSE IF c[3] # Pad THEN 3
             ELSE IF c[2] # Pad THEN 2
             ELSE IF c[1] # Pad THEN 1 ELSE 0
        v == [i \in 1..4 |-> Val(c[i])]
    IN  IF n < 2 THEN Err("Base64DecodeError")
        ELSE IF \E i \in 1..n : v[i] < 0 THEN Err("Base64DecodeError")
        ELSE IF n = 2 THEN
            IF v[2] % 16 # 0 THEN Err("Base64DecodeError")
            ELSE Ok(<<v[1] * 4 + v[2] \div 16>>)
        ELSE IF n = 3 THEN
            IF v[3] % 4 # 0 THEN Err("Base64DecodeError")
            ELSE Ok(<<v[1] * 4 + v[2] \div 16, (v[2] % 16) * 16 + v[3] \div 4>>)
        ELSE Ok(<<v[1] * 4 + v[2] \div 16, (v[2] % 16) * 16 + v[3] \div 4,
                  (v[3] % 4) * 64 + v[4]>>)

RECURSIVE DecodeBlocks(_)
DecodeBlocks(s) ==
    IF Len(s) = 0 THEN Ok(<<>>)
    ELSE LET head == DecodeBlock(SubSeq(s, 1, 4))
         IN  IF ~head.ok THEN head
             ELSE LET rest == DecodeBlocks(SubSeq(s, 5, Len(s)))
                  IN  IF ~rest.ok THEN rest ELSE Ok(head.val \o rest.val)

\* BASE64.decode: the length is a multiple of four, then block by block;
\* a padded block ends its own group, wherever it stands.
Base64Decode(s) ==
    IF Len(s) % 4 # 0 THEN Err("Base64DecodeError") ELSE DecodeBlocks(s)

\* --------------------------------------------------- zstd::stream frames
\* The frame format of RFC 8878 as far as the inputs reach it: frames of raw
\* and RLE blocks with a Frame_Content_Size of at most two bytes.  A frame
\* with a checksum, a dictionary id, a compressed block or the skippable
\* magic number is outside the model ("OutOfModel"), and no input is one.

\* Magic_Number 0xFD2FB528, little-endian.
ZstdMagic == <<40, 181, 47, 253>>

RECURSIVE Pow2(_)
Pow2(n) == IF n = 0 THEN 1 ELSE 2 * Pow2(n - 1)

Min(a, b) == IF a < b THEN a ELSE b

RECURSIVE Repeat(_, _)
Repeat(x, n) == IF n = 0 THEN <<>> ELSE <<x>> \o Repeat(x, n - 1)

\* zstd::stream::Encoder with the source size pledged and the content size
\* included, for an input below the compression threshold: a single-segment
\* header with a one-byte Frame_Content_Size, then one last raw block.
ZstdCompress(b) ==
    ZstdMagic \o <<32, Len(b)>>
    \o <<(Len(b) * 8 + 1) % 256, (Len(b) * 8 + 1) \div 256, 0>> \o b

HdrErr(e) == [ok |-> FALSE, err |-> e, len |-> 0, fcs |-> -1, blockMax |-> 0]

\* The frame header at the start of z: its length, the Frame_Content_Size
\* (-1 when absent) and the largest block the frame may hold.
FrameHeader(z) ==
    IF Len(z) < 4 THEN HdrErr("DecompressionError")
    ELSE IF SubSeq(z, 1, 4) # ZstdMagic THEN
        IF z[1] \div 16 = 5 /\ SubSeq(z, 2, 4) = <<42, 77, 24>>
        THEN HdrErr("OutOfModel") ELSE HdrErr("DecompressionError")
    ELSE IF Len(z) < 5 THEN HdrErr("DecompressionError")
    ELSE
        LET fhd == z[5]
            single == (fhd \div 32) % 2
            fcsFlag == fhd \div 64
            fcsLen == IF fcsFlag = 0 THEN single ELSE IF fcsFlag = 1 THEN 2 ELSE 8
            hdrLen == 5 + (1 - single) + fcsLen
        IN  IF (fhd \div 8) % 2 = 1 THEN HdrErr("DecompressionError")
            ELSE IF fhd % 4 # 0 \/ (fhd \div 4) % 2 = 1 \/ fcsFlag > 1
                THEN HdrErr("OutOfModel")
            ELSE IF Len(z) < hdrLen THEN HdrErr("DecompressionError")
            ELSE
                LET windowLog == 10 + z[6] \div 8
                    mantissa == z[6] % 8
                    fcs == IF fcsLen = 0 THEN -1
                           ELSE IF fcsLen = 1 THEN z[hdrLen]
                           ELSE z[hdrLen - 1] + 256 * z[hdrLen] + 256
                IN  IF single = 1 THEN
                        [ok |-> TRUE, err |-> "none", len |-> hdrLen, fcs |-> fcs,
                         blockMax |-> Min(fcs, 131072)]
                    ELSE IF windowLog > 27 \/ (windowLog = 27 /\ mantissa # 0)
                        THEN HdrErr("DecompressionError")
                    ELSE
                        [ok |-> TRUE, err |-> "none", len |-> hdrLen, fcs |-> fcs,
                         blockMax |-> Min(Pow2(windowLog)
                                          + (Pow2(windowLog) \div 8) * mantissa, 131072)]

\* The blocks of one frame from z[p] on: the regenerated bytes (val) and
\* the position after the last block (next).
RECURSIVE Blocks(_, _, _, _)
Blocks(z, p, blockMax, acc) ==
    IF Len(z) < p + 2 THEN [ok |-> FALSE, err |-> "DecompressionError", val |-> <<>>, next |-> p]
    ELSE
        LET h == z[p] + 256 * z[p + 1] + 65536 * z[p + 2]
            last == h % 2
            type == (h \div 2) % 4
            size == h \div 8
            fail(e) == [ok |-> FALSE, err |-> e, val |-> <<>>, next |-> p]
            then(bytes, q) ==
                IF last = 1 THEN [ok |-> TRUE, err |-> "none", val |-> acc \o bytes, next |-> q]
                ELSE Blocks(z, q, blockMax, acc \o bytes)
        IN  IF type = 3 THEN fail("DecompressionError")
            ELSE IF type = 2 THEN fail("OutOfModel")
            ELSE IF type = 0 THEN
                IF size > blockMax THEN fail("DecompressionError")
                ELSE IF Len(z) < p + 2 + size THEN fail("DecompressionError")
                ELSE then(SubSeq(z, p + 3, p + 2 + size), p + 3 + size)
            ELSE
                IF Len(z) < p + 3 THEN fail("DecompressionError")
                ELSE IF size > blockMax THEN fail("DecompressionError")
                ELSE then(Repeat(z[p + 3], size), p + 4)

\* Decoder::read_to_end over a slice: frame after frame until the input
\* ends; the end of the input inside a frame, or before any frame, is the
\* "incomplete frame" error.
RECURSIVE Frames(_, _, _)
Frames(z, finished, acc) ==
    IF Len(z) = 0 THEN (IF finished THEN Ok(acc) ELSE Err("DecompressionError"))
    ELSE
        LET hdr == FrameHeader(z)
        IN  IF ~hdr.ok THEN Err(hdr.err)
            ELSE
                LET body == Blocks(z, hdr.len + 1, hdr.blockMax, <<>>)
                IN  IF ~body.ok THEN Err(body.err)
                    ELSE IF hdr.fcs # -1 /\ hdr.fcs # Len(body.val)
                        THEN Err("DecompressionError")
                    ELSE Frames(SubSeq(z, body.next, Len(z)), TRUE, acc \o body.val)

ZstdDecode(z) == Frames(z, FALSE, <<>>)

\* ------------------------------------------------------ documents (serde)

Null == [ty |-> "null", s |-> <<>>]
Str(s) == [ty |-> "str", s |-> s]
Entry(k, v) == [k |-> k, v |-> v]

\* "buffer"
BufferTag == <<98, 117, 102, 102, 101, 114>>

\* The variant names of BufferData.
Variants == {"base64", "zbase64"}

InnerErr == [ok |-> FALSE, t |-> <<>>, arm |-> "none", text |-> <<>>]

\* Mutant of FlatEnum: a mapping without a payload field yields an empty
\* base64 payload instead of an error.
RECURSIVE FlatEnumLenient(_, _)
FlatEnumLenient(collect, t) ==
    IF Len(collect) = 0 THEN [ok |-> TRUE, t |-> t, arm |-> "base64", text |-> <<>>]
    ELSE IF collect[1].k \in Variants THEN
        IF collect[1].v.ty # "str" THEN InnerErr
        ELSE [ok |-> TRUE, t |-> t, arm |-> collect[1].k, text |-> collect[1].v.s]
    ELSE FlatEnumLenient(Tail(collect), t)

\* The flattened field `data: BufferData`: the first collected entry whose
\* key is a variant name is the variant, its value a string; the entries
\* after it are left alone.
RECURSIVE FlatEnum(_, _)
FlatEnum(collect, t) ==
    IF Len(collect) = 0 THEN InnerErr
    ELSE IF collect[1].k \in Variants THEN
        IF collect[1].v.ty # "str" THEN InnerErr
        ELSE [ok |-> TRUE, t |-> t, arm |-> collect[1].k, text |-> collect[1].v.s]
    ELSE FlatEnum(Tail(collect), t)

\* BufferInner::deserialize: the derived map visitor.  `t` is read once, as
\* a string; every other entry is collected for the flattened field.
RECURSIVE VisitMap(_, _, _, _)
VisitMap(doc, seen, t, collect) ==
    IF Len(doc) = 0 THEN
        IF ~seen THEN InnerErr ELSE FlatEnum(collect, t)
    ELSE IF doc[1].k = "t" THEN
        IF seen \/ doc[1].v.ty # "str" THEN InnerErr
        ELSE VisitMap(Tail(doc), TRUE, doc[1].v.s, collect)
    ELSE VisitMap(Tail(doc), seen, t, Append(collect, doc[1]))

\* Mutant of DecodePayload: a decompression fault yields the empty buffer.
DecodePayloadLossy(arm, text) ==
    LET raw == Base64Decode(text)
    IN  IF ~raw.ok THEN raw
        ELSE IF arm = "base64" THEN raw
        ELSE LET plain == ZstdDecode(raw.val)
             IN  IF plain.ok THEN plain ELSE Ok(<<>>)

\* Mutant of DecodePayload: the arms are swapped.
DecodePayloadSwapped(arm, text) ==
    LET raw == Base64Decode(text)
    IN  IF ~raw.ok THEN raw
        ELSE IF arm = "zbase64" THEN raw
        ELSE ZstdDecode(raw.val)

\* Mutant of DecodePayload: the zbase64 arm is not decompressed.
DecodePayloadRaw(arm, text) == Base64Decode(text)

\* The match on BufferData: base64, and for zbase64 zstd after it.
DecodePayload(arm, text) ==
    LET raw == Base64Decode(text)
    IN  IF ~raw.ok THEN raw
        ELSE IF arm = "base64" THEN raw
        ELSE ZstdDecode(raw.val)

\* Mutant of Deserialize: the payload is decoded before the tag is compared.
DeserializePayloadFirst(doc) ==
    LET inner == VisitMap(doc, FALSE, <<>>, <<>>)
    IN  IF ~inner.ok THEN Err("StructuralMismatch")
        ELSE LET data == DecodePayload(inner.arm, inner.text)
             IN  IF ~data.ok THEN data
                 ELSE IF inner.t # BufferTag THEN Err("UnexpectedTag")
                 ELSE data

\* <Buffer as Deserialize>::deserialize.
Deserialize(doc) ==
    LET inner == VisitMap(doc, FALSE, <<>>, <<>>)
    IN  IF ~inner.ok THEN Err("StructuralMismatch")
        ELSE IF inner.t # BufferTag THEN Err("UnexpectedTag")
        ELSE DecodePayload(inner.arm, inner.text)

SerResult(ok, b, doc, step) ==
    [called |-> TRUE, ok |-> ok, src |-> b, doc |-> doc, step |-> step,
     err |-> IF ok THEN "none" ELSE "SerializerError"]

\* Mutant of Serialize: the disabled compress-and-compare branch runs, and
\* the unconditional base64 entry follows it.
SerializeCompressing(b, f) ==
    LET plain == Base64Encode(b)
        packed == Base64Encode(ZstdCompress(b))
        e == <<Entry("m", Null), Entry("t", Str(BufferTag)),
               IF Len(packed) < Len(plain) THEN Entry("zbase64", Str(packed))
               ELSE Entry("base64", Str(plain)),
               Entry("base64", Str(plain))>>
    IN  IF f = 0 THEN SerResult(TRUE, b, e, 0)
        ELSE SerResult(FALSE, b, SubSeq(e, 1, IF f = 1 THEN 0 ELSE f - 2), f)

\* Mutant of Serialize: an entry's failure is ignored.
SerializeSwallowing(b, f) ==
    LET e == <<Entry("m", Null), Entry("t", Str(BufferTag)),
               Entry("base64", Str(Base64Encode(b)))>>
    IN  IF f = 0 \/ f = 3 THEN SerResult(TRUE, b, e, f)
        ELSE SerResult(FALSE, b, SubSeq(e, 1, IF f = 1 THEN 0 ELSE f - 2), f)

\* <Buffer as Serialize>::serialize against a serializer whose f-th call
\* fails (1 serialize_map, 2..4 the entries m, t, base64, 5 end; 0 none):
\* doc is what the serializer was given before the call returned.
Serialize(b, f) ==
    LET e == <<Entry("m", Null), Entry("t", Str(BufferTag)),
               Entry("base64", Str(Base64Encode(b)))>>
    IN  IF f = 0 THEN SerResult(TRUE, b, e, 0)
        ELSE SerResult(FALSE, b, SubSeq(e, 1, IF f = 1 THEN 0 ELSE f - 2), f)

\* The calls serialize makes into the serializer.
SerializerCalls == 1..5

\* ------------------------------------------------------ Buffer operations

\* Mutant of ExtendBytes: the new bytes go in front.
ExtendBytesFront(v, e) == e \o v

\* Vec::extend: each byte of the iterator is pushed in turn.
RECURSIVE ExtendBytes(_, _)
ExtendBytes(v, e) ==
    IF Len(e) = 0 THEN v ELSE ExtendBytes(Append(v, Head(e)), Tail(e))

\* Vec::from_iter.
FromIterBytes(e) == ExtendBytes(<<>>, e)

\* ------------------------------------------------------------ the inputs

\* "notbuffer", "Buffer" and the empty tag.
OtherTags == {<<110, 111, 116>> \o BufferTag, <<66, 117, 102, 102, 101, 114>>, <<>>}

SetAt(s, i, x) == [s EXCEPT ![i] = x]

Encoded == {Base64Encode(b) : b \in BufSeqs}

\* tests::test_base64_de: "aGVsbG8gd29ybGQ=" and the bytes of "hello world".
HelloText == <<97, 71, 86, 115, 98, 71, 56, 103, 100, 50, 57, 121, 98, 71, 81, 61>>
HelloBytes == <<104, 101, 108, 108, 111, 32, 119, 111, 114, 108, 100>>

\* Texts that are not the encoding they were made from: a character cut,
\* replaced by '!' or by '=', or moved to the next symbol; and two padded
\* encodings one after the other.
Damaged ==
    LET full == {e \in Encoded : Len(e) > 0}
    IN  {SubSeq(s, 1, Len(s) - 1) : s \in full}
        \cup {SetAt(s, i, 33) : s \in full, i \in 1..4}
        \cup {SetAt(s, i, Pad) : s \in full, i \in 1..4}
        \cup {SetAt(s, i, Sym((Val(s[i]) + 1) % 64)) : s \in {e \in full : e[4] = Pad}, i \in 2..3}
        \cup {x \o y : x, y \in {Base64Encode(<<b>>) : b \in Bytes}}

Base64Texts == Encoded \cup Damaged \cup {HelloText}

\* Frames other than the encoder's: an RLE block, a window descriptor
\* instead of a content size, two blocks, two frames.
OtherFrames ==
    {ZstdMagic \o <<32, n, n * 8 + 3, 0, 0, b>> : n \in 1..MaxLen, b \in Bytes}
    \cup {ZstdMagic \o <<0, 0, Len(b) * 8 + 1, 0, 0>> \o b : b \in BufSeqs}
    \cup {ZstdMagic \o <<32, 2, 8, 0, 0, b, 9, 0, 0, b>> : b \in Bytes}
    \cup {ZstdCompress(<<b>>) \o ZstdCompress(<<b>>) : b \in Bytes}

\* Frames that are not valid: cut short anywhere (to nothing at all too), a
\* byte of the magic number changed, the reserved header bit set, a content
\* size that is one too many, the reserved block type, a byte after the end,
\* a second block cut short or of the reserved type after a first good one.
CorruptFrames ==
    UNION {{SubSeq(ZstdCompress(b), 1, k) : k \in 0..(8 + Len(b))} : b \in BufSeqs}
    \cup {SetAt(ZstdCompress(b), i, 255 - ZstdCompress(b)[i]) : b \in BufSeqs, i \in 1..4}
    \cup {SetAt(ZstdCompress(b), 5, 40) : b \in BufSeqs}
    \cup {SetAt(ZstdCompress(b), 6, Len(b) + 1) : b \in BufSeqs}
    \cup {SetAt(ZstdCompress(b), 7, Len(b) * 8 + 7) : b \in BufSeqs}
    \cup {ZstdCompress(b) \o <<0>> : b \in BufSeqs}
    \cup {ZstdMagic \o <<32, 2, 8, 0, 0, b, 9, 0, 0>> : b \in Bytes}
    \cup {ZstdMagic \o <<32, 2, 8, 0, 0, b, 15, 0, 0, b>> : b \in Bytes}

ZTexts ==
    {Base64Encode(z) : z \in {ZstdCompress(b) : b \in BufSeqs} \cup OtherFrames \cup CorruptFrames}

\* The payload entries: none, one arm, an arm that is no string, both arms.
OneArm ==
    {<<Entry("base64", Str(x))>> : x \in Base64Texts}
    \cup {<<Entry("zbase64", Str(x))>> : x \in ZTexts}

FewArms ==
    {<<>>, <<Entry("base64", Null)>>, <<Entry("zbase64", Null)>>}
    \cup {<<Entry(k, Str(x))>> : k \in Variants,
            x \in {<<>>, Base64Encode(<<104, 105>>), <<97, 71, 107>>,
                   Base64Encode(ZstdCompress(<<104, 105>>)),
                   Base64Encode(ZstdCompress(<<104>>))}}

BothArms ==
    {<<Entry(k, Str(x)), Entry(j, Str(y))>> : k, j \in Variants,
        x, y \in {Base64Encode(<<104, 105>>), Base64Encode(ZstdCompress(<<104>>)), <<33>>}}

TagEntries ==
    {<<>>, <<Entry("t", Null)>>, <<Entry("t", Str(BufferTag)), Entry("t", Str(BufferTag))>>}
    \cup {<<Entry("t", Str(t))>> : t \in OtherTags \cup {BufferTag}}

InputDocs ==
    {<<Entry("m", Null), Entry("t", Str(BufferTag))>> \o p : p \in OneArm}
    \cup {m \o t \o p : m \in {<<>>, <<Entry("m", Null)>>}, t \in TagEntries,
                        p \in FewArms \cup BothArms}
    \cup {p \o t \o <<Entry("m", Null)>> : t \in TagEntries, p \in FewArms \cup BothArms}

\* ------------------------------------------------------------- the state

NoView == [some |-> FALSE, val |-> <<>>]
View(v) == [some |-> TRUE, val |-> v]
NoSer == [called |-> FALSE, ok |-> FALSE, src |-> <<>>, doc |-> <<>>, step |-> 0, err |-> "none"]
NoResult == [ok |-> FALSE, val |-> <<>>, err |-> "pending"]

Init ==
    /\ pc = "start"
    /\ buffer = <<>>
    /\ calls = <<>>
    /\ out = NoView
    /\ ser = NoSer
    /\ input = <<>>
    /\ de = NoResult

\* Buffer::new(data)
New ==
    \E v \in BufSeqs :
        /\ pc = "start"
        /\ buffer' = v
        /\ calls' = <<v>>
        /\ pc' = "live"
        /\ UNCHANGED <<out, ser, input, de>>

\* Buffer::from_iter(iter)
FromIter ==
    \E v \in BufSeqs :
        /\ pc = "start"
        /\ buffer' = FromIterBytes(v)
        /\ calls' = <<v>>
        /\ pc' = "live"
        /\ UNCHANGED <<out, ser, input, de>>

\* buffer.extend(iter); a view borrowed earlier does not outlive it.
Extend ==
    \E e \in BufSeqs :
        /\ pc = "live"
        /\ Len(calls) <= MaxExtends
        /\ Len(buffer) + Len(e) <= MaxLen
        /\ buffer' = ExtendBytes(buffer, e)
        /\ calls' = Append(calls, e)
        /\ out' = NoView
        /\ UNCHANGED <<pc, ser, input, de>>

\* buffer.as_ref(): the bytes, borrowed.
AsRef ==
    /\ pc = "live"
    /\ out' = View(buffer)
    /\ UNCHANGED <<pc, buffer, calls, ser, input, de>>

\* buffer.as_mut(): the bytes, borrowed mutably; the call writes nothing.
AsMut ==
    /\ pc = "live"
    /\ out' = View(buffer)
    /\ UNCHANGED <<pc, buffer, calls, ser, input, de>>

\* buffer.into_vec(): the bytes, the Buffer consumed.
IntoVec ==
    /\ pc = "live"
    /\ out' = View(buffer)
    /\ pc' = "consumed"
    /\ UNCHANGED <<buffer, calls, ser, input, de>>

\* Vec::from(buffer), which is into_vec.
VecFrom ==
    /\ pc = "live"
    /\ out' = View(buffer)
    /\ pc' = "consumed"
    /\ UNCHANGED <<buffer, calls, ser, input, de>>

\* buffer.serialize(serializer), the serializer failing at call f or never.
DoSerialize ==
    \E f \in {0} \cup SerializerCalls :
        /\ pc = "live"
        /\ ser' = Serialize(buffer, f)
        /\ pc' = "serialized"
        /\ UNCHANGED <<buffer, calls, out, input, de>>

\* Buffer::deserialize of the document serialize produced.
DeserializeBack ==
    /\ pc = "serialized"
    /\ ser.ok
    /\ input' = ser.doc
    /\ de' = Deserialize(ser.doc)
    /\ pc' = "roundtrip"
    /\ UNCHANGED <<buffer, calls, out, ser>>

\* Buffer::deserialize of a document from elsewhere.
DoDeserialize ==
    \E d \in InputDocs :
        /\ pc = "start"
        /\ input' = d
        /\ de' = Deserialize(d)
        /\ pc' = "decoded"
        /\ UNCHANGED <<buffer, calls, out, ser>>

Next ==
    \/ New
    \/ FromIter
    \/ Extend
    \/ AsRef
    \/ AsMut
    \/ IntoVec
    \/ VecFrom
    \/ DoSerialize
    \/ DeserializeBack
    \/ DoDeserialize

Spec == Init /\ [][Next]_vars

\* ------------------------------------------------------------ the claims

\* The shapes of document the claims speak of.
PlainDoc(x) == <<Entry("m", Null), Entry("t", Str(BufferTag)), Entry("base64", Str(x))>>
PackedDoc(x) == <<Entry("m", Null), Entry("t", Str(BufferTag)), Entry("zbase64", Str(x))>>
HasKey(doc, k) == \E i \in 1..Len(doc) : doc[i].k = k
TagIsOtherString(doc) ==
    /\ Cardinality({i \in 1..Len(doc) : doc[i].k = "t"}) = 1
    /\ \E i \in 1..Len(doc) : doc[i].k = "t" /\ doc[i].v.ty = "str" /\ doc[i].v.s # BufferTag
HasNoPayload(doc) == ~HasKey(doc, "base64") /\ ~HasKey(doc, "zbase64")
HasStringPayload(doc) ==
    /\ ~HasNoPayload(doc)
    /\ \A i \in 1..Len(doc) : doc[i].k \in Variants => doc[i].v.ty = "str"

RECURSIVE Flatten(_)
Flatten(ss) == IF Len(ss) = 0 THEN <<>> ELSE Head(ss) \o Flatten(Tail(ss))

\* RFC 4648 base64 text: whole blocks of four symbols, the last one possibly
\* ending in one or two '='.
IsSymbol(c) == Val(c) >= 0
StandardBase64(s) ==
    /\ Len(s) % 4 = 0
    /\ \A i \in 1..Len(s) :
         \/ IsSymbol(s[i])
         \/ s[i] = Pad /\ i > 2 /\ i >= Len(s) - 1 /\ (i = Len(s) - 1 => s[Len(s)] = Pad)

\* C1: deserializing the mapping that serialize produced for Buffer(B)
\* succeeds and yields a Buffer equal to Buffer(B), the empty B included.
C1_RoundTrip ==
    pc = "roundtrip" => ser.src = buffer /\ input = ser.doc /\ de = Ok(buffer)

C1_Witness == pc = "roundtrip" /\ de.ok /\ buffer = <<0, 255>>

\* C2: serialize emits exactly the entries m -> null, t -> "buffer",
\* base64 -> the base64 text of B, in this order; it hands the serializer no
\* zbase64 entry and no fourth entry; the bytes of "hi" give "aGk=".
C2_PlainForm ==
    ser.called =>
        /\ Len(ser.doc) <= 3
        /\ \A i \in 1..Len(ser.doc) : ser.doc[i].k # "zbase64"
        /\ ser.ok => ser.doc = PlainDoc(Base64Encode(ser.src))
        /\ ser.ok /\ ser.src = <<104, 105>> => ser.doc[3].v.s = <<97, 71, 107, 61>>
        /\ ser.ok => Len(ser.doc[3].v.s) = 4 * ((Len(ser.src) + 2) \div 3)

C2_Witness == pc = "serialized" /\ ser.ok /\ ser.src = <<104, 105>>

\* C3 as claimed: a mapping whose t is a string other than "buffer" fails
\* with UnexpectedTag, whether a payload field is present, absent or
\* malformed.
C3_TagAlwaysWins ==
    pc = "decoded" /\ TagIsOtherString(input) => de = Err("UnexpectedTag")

\* C3 as amended: a mapping whose t is a string other than "buffer" and whose
\* payload fields are strings fails with UnexpectedTag, whether the payload
\* text is valid or malformed; with no payload field it fails with the
\* parser's structural error.
C3_TagEnforced ==
    pc = "decoded" /\ TagIsOtherString(input) =>
        /\ HasStringPayload(input) => de = Err("UnexpectedTag")
        /\ HasNoPayload(input) => de = Err("StructuralMismatch")

C3_Witness ==
    /\ pc = "decoded"
    /\ TagIsOtherString(input)
    /\ \E i \in 1..Len(input) : input[i].k = "base64" /\ input[i].v = Str(<<33>>)
    /\ de = Err("UnexpectedTag")

\* C4: for every byte sequence B the base64 arm built from B and the zbase64
\* arm built from the compressed B both decode, to Buffer(B).
C4_CrossVariant ==
    pc = "decoded" =>
        \A b \in BufSeqs :
            input \in {PlainDoc(Base64Encode(b)), PackedDoc(Base64Encode(ZstdCompress(b)))}
                => de = Ok(b)

C4_Witness ==
    /\ pc = "decoded"
    /\ input = PackedDoc(Base64Encode(ZstdCompress(<<104, 105>>)))
    /\ de = Ok(<<104, 105>>)

\* C5 as claimed: a base64 field whose text is not standard base64 fails
\* with Base64DecodeError and no Buffer is returned.
C5_MalformedRejected ==
    pc = "decoded" =>
        \A x \in Base64Texts :
            input = PlainDoc(x) /\ ~StandardBase64(x) => de = Err("Base64DecodeError")

\* C6: a zbase64 field of valid base64 whose bytes are no valid, complete
\* zstd frame fails with DecompressionError; nothing decompressed before the
\* fault is returned.
C6_CorruptRejected ==
    pc = "decoded" =>
        \A z \in CorruptFrames :
            input = PackedDoc(Base64Encode(z)) => de = Err("DecompressionError")

C6_Witness ==
    /\ pc = "decoded"
    /\ input = PackedDoc(Base64Encode(ZstdMagic \o <<32, 2, 8, 0, 0, 104, 9, 0, 0>>))
    /\ de = Err("DecompressionError")

\* C7: a mapping with neither payload field, or without the field t, fails
\* with the parser's structural error, not with the tag error nor with a
\* base64 or zstd error.
C7_Structural ==
    pc = "decoded" /\ (HasNoPayload(input) \/ ~HasKey(input, "t"))
        => de = Err("StructuralMismatch")

C7_Witness ==
    /\ pc = "decoded"
    /\ input = <<Entry("m", Null), Entry("t", Str(BufferTag))>>
    /\ de = Err("StructuralMismatch")

\* C8: serialize fails exactly when a call into the serializer fails, and
\* then with the serializer's error; with a serializer that never fails it
\* succeeds for every B.
C8_OnlySerializerFails ==
    ser.called =>
        /\ ser.ok <=> ser.step = 0
        /\ ~ser.ok => ser.err = "SerializerError"
        /\ ser.ok => ser.err = "none" /\ Len(ser.doc) = 3

C8_Witness == pc = "serialized" /\ ~ser.ok /\ ser.step = 3 /\ ser.src = <<255>>

\* C9 as claimed: a mapping that carries both payload fields is not decoded
\* into a Buffer.
C9_BothRejected ==
    pc = "decoded" /\ HasKey(input, "base64") /\ HasKey(input, "zbase64") => ~de.ok

\* C10: the bytes handed out after new or from_iter and any extends are the
\* byte sequences given, one after the other, nothing added or dropped.
C10_GrowableBytes ==
    /\ pc \in {"live", "consumed", "serialized", "roundtrip"} => buffer = Flatten(calls)
    /\ out.some => out.val = Flatten(calls)

C10_Witness ==
    /\ pc = "consumed"
    /\ out.some
    /\ calls = <<<<104>>, <<>>, <<105>>>>

\* No input leaves the modelled part of the frame format.
InsideModel == de.err # "OutOfModel"

====
